---- MODULE Spec2Model ----
(***************************************************************************)
(* Background response orchestrator of aure (server/jobs.ts) together with *)
(* the chat routes that drive it (server/api.ts) and the message store     *)
(* (db/index.ts).                                                          *)
(*                                                                         *)
(* Scheduling: Node.js, single-threaded.  A handler or a job continuation  *)
(* runs to its next real suspension without interleaving.  The real        *)
(* suspensions of a job are the Responder call (jobs.ts:128) and every     *)
(* stream.writeSSE of notifyListeners (jobs.ts:75).  notifyListeners with  *)
(* no subscriber returns at once (jobs.ts:70) and its await only takes a   *)
(* microtask turn, during which no request handler can run; it is part of  *)
(* the same step.                                                          *)
(*                                                                         *)
(* A message id is the pair <<conversation, position>>: ids are fresh      *)
(* (randomUUID) and rows are never deleted, so the position of a row in    *)
(* created_at order identifies it.                                         *)
(***************************************************************************)
EXTENDS Integers, Sequences, FiniteSets, TLC

\* ---- bounds of the model ----
\* Spec: the server as deployed (cancelJob reached through the DELETE route)
MaxConvs == 2
MaxVisitor == 2
MaxStreams == 1
\* SpecApi: the module called directly (cancelJob with any placeholder id)
ApiVisitor == 1
ApiStreams == 1
\* LiveSpec: the deployed server under a fair event loop
LiveConvs == 1
LiveVisitor == 2
LiveStreams == 1
\* SpecFan: the deployed server with several viewers
FanConvs == 2
FanVisitor == 1
FanStreams == 2
\* SpecHist: the deployed server with one long conversation already stored
HistVisitor == 1
HistStreams == 1
HistSpan == 2

\* ---- constants of the program ----
\* db/index.ts:143  getMessages(conversationId, limit = 100)
limit == 100
\* jobs.ts:121  .slice(-10)
window == 10

Convs == 1..(MaxConvs + LiveConvs + FanConvs)
Streams == 1..(MaxStreams + ApiStreams + LiveStreams + FanStreams)
\* Rows a conversation can hold: the greeting, and per inbound message
\* its own row, a fast-path answer or a placeholder, and a chained placeholder.
NewRows == 3 * (MaxVisitor + ApiVisitor + LiveVisitor + FanVisitor + HistVisitor)
\* Conversation 1 can be the long one of SpecHist.
MaxRows == 1 + limit + 2 * HistSpan + NewRows
Ids == ({1} \X (1..MaxRows)) \cup ((Convs \ {1}) \X (1..(1 + NewRows)))

VARIABLES
  conversations,  \* conversations table: id -> [spam]
  msgs,           \* messages table: conversation -> rows in created_at order
  activeJobs,     \* jobs.ts:25  Map<pendingMessageId, AbortController> (its keys)
  jobs,           \* one record per started job (the async closure of processInBackground)
  listeners,      \* jobs.ts:22  Map<conversationId, Set<stream>>, sets in insertion order
  streams,        \* SSE streams opened so far: stream k belongs to conversation streams[k]
  resolves,       \* history: number of resolvePendingMessage calls per message id
  lastCancel,     \* the cancelJob call made by the current step and its return value
  published,      \* history: the notifyListeners calls made so far, by event name and id
  delivered,      \* history: per stream, the events whose writeSSE completed, in order
  quota,          \* requests the environment may still issue
  now,            \* Date.now(), counted in Responder calls completed so far
  unsubscribed    \* history: the streams whose unsubscribe closure has run

vars == <<conversations, msgs, activeJobs, jobs, listeners, streams, resolves, lastCancel,
          published, delivered, quota, now, unsubscribed>>

\* The mutable process and store state, threaded through the operators below.
State ==
  [conversations |-> conversations, msgs |-> msgs, activeJobs |-> activeJobs,
   jobs |-> jobs, listeners |-> listeners, resolves |-> resolves,
   published |-> published, delivered |-> delivered, now |-> now,
   unsubscribed |-> unsubscribed]

Commit(S) ==
  \E after \in {S} :
     /\ conversations' = after.conversations
     /\ msgs' = after.msgs
     /\ activeJobs' = after.activeJobs
     /\ jobs' = after.jobs
     /\ listeners' = after.listeners
     /\ resolves' = after.resolves
     /\ published' = after.published
     /\ delivered' = after.delivered
     /\ now' = after.now
     /\ unsubscribed' = after.unsubscribed

NoCall == [id |-> <<0, 0>>, ret |-> FALSE, called |-> FALSE]

\* ---- metadata values (JSON objects of the metadata column) ----
NoMeta == [error |-> "", type |-> "", source |-> ""]
ErrMeta(reason) == [error |-> reason, type |-> "", source |-> ""]
FailMeta(reason, kind) == [error |-> reason, type |-> kind, source |-> ""]
SrcMeta(src) == [error |-> "", type |-> "", source |-> src]

\* ---- Responder outcomes (core/responder respond(): returns or throws) ----
Outcomes ==
  { [kind |-> "return", content |-> "answer", source |-> "llm", spam |-> FALSE, drop |-> FALSE, name |-> "", message |-> ""],
    [kind |-> "return", content |-> "answer", source |-> "llm", spam |-> TRUE, drop |-> FALSE, name |-> "", message |-> ""],
    [kind |-> "return", content |-> "answer", source |-> "llm", spam |-> TRUE, drop |-> TRUE, name |-> "", message |-> ""],
    [kind |-> "throw", content |-> "", source |-> "", spam |-> FALSE, drop |-> FALSE, name |-> "TimeoutError", message |-> "timed out"],
    [kind |-> "throw", content |-> "", source |-> "", spam |-> FALSE, drop |-> FALSE, name |-> "Error", message |-> "failed"] }

\* Verdict of the fast paths on an inbound message (checkSpam, checkRules).
Verdicts == {"none", "rule", "flag", "drop"}


\* ---------------------------------------------------------------------
\* Message Store (db/index.ts)
\* ---------------------------------------------------------------------
Row(i, role, content, status, createdAt) ==
  [id |-> i, role |-> role, content |-> content, status |-> status, metadata |-> NoMeta,
   createdAt |-> createdAt]

\* INSERT INTO messages ... (status defaults to 'received')
addMessage(S, c, role, content) ==
  [S EXCEPT !.msgs[c] = Append(@, Row(Len(@) + 1, role, content, "received", S.now))]

\* INSERT INTO messages ... VALUES (?, ?, ?, '', 'pending', '{}', ?)
addPendingMessage(S, c) ==
  [S EXCEPT !.msgs[c] = Append(@, Row(Len(@) + 1, "aure", "", "pending", S.now))]

Count(f, id) == IF id \in DOMAIN f THEN f[id] ELSE 0

Bump(f, id) == [x \in DOMAIN f \cup {id} |-> Count(f, x) + (IF x = id THEN 1 ELSE 0)]

\* db/index.ts:183-188  resolvePendingMessage(...): void, the value its caller gets
undefined == [defined |-> FALSE, at |-> 0]

\* UPDATE messages SET content = ?, status = ?, metadata = ? WHERE id = ?
resolvePendingMessage(S, id, content, status, metadata) ==
  [S EXCEPT !.msgs[id[1]][id[2]] = [@ EXCEPT !.content = content, !.status = status, !.metadata = metadata],
            !.resolves = Bump(@, id)]

\* UPDATE conversations SET spam = ? WHERE id = ?
updateConversation(S, c, spam) ==
  [S EXCEPT !.conversations[c] = [@ EXCEPT !.spam = spam]]

\* Position of the latest responder row that is not a pending placeholder (0: none).
LastAnswer(ms) ==
  LET A == {i \in 1..Len(ms) : ms[i].role = "aure" /\ ms[i].status # "pending"}
  IN IF A = {} THEN 0 ELSE CHOOSE i \in A : \A k \in A : k <= i

\* Visitor rows not yet answered, in arrival order: those after the latest
\* responder row that is no longer pending.
getUnrespondedVisitorMessages(ms) ==
  LET last == LastAnswer(ms)
      IsOpen(m) == m.role = "visitor" /\ m.id > last
  IN SelectSeq(ms, IsOpen)

\* SELECT * FROM messages WHERE conversation_id = ? ORDER BY created_at ASC LIMIT ?
getMessages(ms) == SubSeq(ms, 1, IF Len(ms) < limit THEN Len(ms) ELSE limit)

PendingRows(ms) == {i \in 1..Len(ms) : ms[i].role = "aure" /\ ms[i].status = "pending"}

\* The pending responder row of a conversation, or 0 when there is none.
hasPendingAureMessage(ms) ==
  IF PendingRows(ms) = {} THEN 0 ELSE CHOOSE i \in PendingRows(ms) : \A k \in PendingRows(ms) : i <= k

\* ---------------------------------------------------------------------
\* Listener Registry (jobs.ts: listeners, addListener, notifyListeners)
\* ---------------------------------------------------------------------
IndexOf(seq, x) ==
  IF \E i \in 1..Len(seq) : seq[i] = x THEN CHOOSE i \in 1..Len(seq) : seq[i] = x ELSE 0

Without(seq, i) == [k \in 1..(Len(seq) - 1) |-> IF k < i THEN seq[k] ELSE seq[k + 1]]

\* A job whose notifyListeners loop is iterating the Set object currently
\* stored under conversation c.
Iterating(j, jid, c) == j.pc = "writing" /\ jid[1] = c /\ ~j.note.detached

\* A delete that leaves live iterators where they stand, as if the loop ran
\* over an array by index: the entry after a removed one is skipped.
setDeleteSkips(S, c, stream) ==
  IF c \notin DOMAIN S.listeners THEN S
  ELSE LET i == IndexOf(S.listeners[c], stream)
       IN IF i = 0 THEN S
          ELSE [S EXCEPT !.listeners[c] = Without(@, i),
                         !.published = [key \in DOMAIN @ |->
                                          IF key[2][1] = c /\ ~@[key].done
                                          THEN [@[key] EXCEPT !.stayed = @ \ {stream}] ELSE @[key]]]

\* A delete put off while a loop is running over the Set, as if the loop
\* ran over a copy taken when it started.
setDeleteDeferred(S, c, stream) ==
  IF c \notin DOMAIN S.listeners THEN S
  ELSE LET i == IndexOf(S.listeners[c], stream)
       IN IF i = 0 \/ (\E jid \in DOMAIN S.jobs : Iterating(S.jobs[jid], jid, c)) THEN S
          ELSE [S EXCEPT !.listeners[c] = Without(@, i),
                         !.published = [key \in DOMAIN @ |->
                                          IF key[2][1] = c /\ ~@[key].done
                                          THEN [@[key] EXCEPT !.stayed = @ \ {stream}] ELSE @[key]]]

\* Set.prototype.delete(stream) on the Set stored under c: live iterators
\* skip a removed entry; an iterator standing at or past it moves back one.
setDelete(S, c, stream) ==
  IF c \notin DOMAIN S.listeners THEN S
  ELSE LET i == IndexOf(S.listeners[c], stream)
       IN IF i = 0 THEN S
          ELSE [S EXCEPT !.listeners[c] = Without(@, i),
                         !.jobs = [jid \in DOMAIN @ |->
                                     IF Iterating(@[jid], jid, c) /\ @[jid].note.pos >= i
                                     THEN [@[jid] EXCEPT !.note.pos = @ - 1] ELSE @[jid]],
                         !.published = [key \in DOMAIN @ |->
                                          IF key[2][1] = c /\ ~@[key].done
                                          THEN [@[key] EXCEPT !.stayed = @ \ {stream}] ELSE @[key]]]

\* The entry emptied instead of deleted: the map keeps an empty Set under c.
mapDeleteClears(S, c) ==
  [S EXCEPT !.listeners[c] = <<>>,
            !.jobs = [jid \in DOMAIN @ |->
                        IF Iterating(@[jid], jid, c) THEN [@[jid] EXCEPT !.note.detached = TRUE] ELSE @[jid]]]

\* listeners.delete(conversationId): the Set object leaves the map; loops
\* that captured it keep iterating that (empty) object, not a later one.
mapDelete(S, c) ==
  [S EXCEPT !.listeners = [k \in DOMAIN @ \ {c} |-> @[k]],
            !.jobs = [jid \in DOMAIN @ |->
                        IF Iterating(@[jid], jid, c) THEN [@[jid] EXCEPT !.note.detached = TRUE] ELSE @[jid]]]

\* jobs.ts:31-38
addListener(S, c, stream) ==
  LET S1 == IF c \in DOMAIN S.listeners THEN S
            ELSE [S EXCEPT !.listeners = @ @@ (c :> <<>>)]
  IN IF IndexOf(S1.listeners[c], stream) # 0 THEN S1
     ELSE [S1 EXCEPT !.listeners[c] = Append(@, stream)]

\* The closure without its size check: an emptied Set stays in the map.
removeListenerNoGc(S, c, stream) ==
  IF c \notin DOMAIN S.listeners THEN S ELSE setDelete(S, c, stream)

\* jobs.ts:40-46, the closure returned by addListener
removeListener(S, c, stream) ==
  IF c \notin DOMAIN S.listeners THEN S
  ELSE LET S1 == setDelete(S, c, stream)
       IN IF Len(S1.listeners[c]) = 0 THEN mapDelete(S1, c) ELSE S1

\* ---------------------------------------------------------------------
\* Job Orchestrator (jobs.ts: activeJobs, cancelJob, processInBackground)
\* ---------------------------------------------------------------------
Idle ==
  [ev |-> "", evId |-> <<0, 0>>, payload |-> "", cont |-> "", cur |-> 0, pos |-> 0, detached |-> FALSE]

NoResult == [kind |-> ""]

\* pc, aborted and note are the closure's control state and its controller;
\* question is the combined question; origin, parent, result, exit, cancelAt
\* and during are history: who started the job (for a chained job, which
\* job), what the Responder produced for a job that had been cancelled, which
\* branch resolved the Message, where the job stood when it was cancelled,
\* and the visitor rows queued for the model while its Responder call was in
\* flight.  Further history: asked and calls are the question string passed
\* to the Responder and the number of Responder calls made; seen and last are
\* the number of rows and the position of the latest answer when the job read
\* the store; arrived are the visitor rows stored while the Responder call
\* was in flight; next is the placeholder the job created in its chain step.
NewJob(question) ==
  [pc |-> "respond", aborted |-> FALSE, question |-> question, origin |-> "request",
   parent |-> <<0, 0>>, result |-> NoResult, exit |-> "", cancelAt |-> "", during |-> {},
   asked |-> "", calls |-> 0, seen |-> 0, last |-> 0, arrived |-> {}, next |-> <<0, 0>>,
   history |-> <<>>, resolvedAt |-> undefined,
   note |-> Idle]

\* Finally without the delete: the token outlives the job.
FinallyKeepsToken(S, jid) ==
  [S EXCEPT !.jobs[jid] = [@ EXCEPT !.pc = "done", !.note = Idle]]

\* Finally clearing the whole map instead of deleting its own key.
FinallyClearsMap(S, jid) ==
  [S EXCEPT !.activeJobs = {},
            !.jobs[jid] = [@ EXCEPT !.pc = "done", !.note = Idle]]

\* jobs.ts:204-206  finally { activeJobs.delete(pendingMessageId) }
Finally(S, jid) ==
  [S EXCEPT !.activeJobs = @ \ {jid},
            !.jobs[jid] = [@ EXCEPT !.pc = "done", !.note = Idle]]

Contents(rows) == [k \in 1..Len(rows) |-> rows[k].content]

RECURSIVE join(_, _)

\* Array.prototype.join(separator) on a non-empty array of strings
join(strings, separator) ==
  IF Len(strings) = 1 THEN strings[1]
  ELSE strings[1] \o separator \o join(Tail(strings), separator)

\* A join that drops the separator.
combinedQuestionGlued(unresponded) ==
  IF Len(unresponded) = 1 THEN unresponded[1].content
  ELSE join(Contents(unresponded), "")

\* jobs.ts:113-115
combinedQuestion(unresponded) ==
  IF Len(unresponded) = 1 THEN unresponded[1].content
  ELSE join(Contents(unresponded), "\n\n")

\* Array.prototype.slice(-n): the last n elements
slice(array, n) ==
  SubSeq(array, IF Len(array) > n THEN Len(array) - n + 1 ELSE 1, Len(array))

\* jobs.ts:122-125  one role-tagged turn of the history
LLMMessage(m) ==
  [role |-> IF m.role = "visitor" THEN "user" ELSE "assistant", content |-> m.content]

NotPending(m) == m.status # "pending"

\* jobs.ts:118-125  the history handed to the Responder
history(ms) ==
  LET turns == slice(SelectSeq(getMessages(ms), NotPending), window)
  IN [i \in 1..Len(turns) |-> LLMMessage(turns[i])]

\* processInBackground without the no-messages guard.
processInBackgroundNoGuard(S, id) ==
  LET c == id[1]
      S1 == [S EXCEPT !.activeJobs = @ \cup {id},
                      !.jobs = @ @@ (id :> NewJob(<<>>))]
      unresponded == getUnrespondedVisitorMessages(S1.msgs[c])
  IN [S1 EXCEPT !.jobs[id].seen = Len(S.msgs[c]),
                !.jobs[id].last = LastAnswer(S.msgs[c]),
                !.jobs[id].question = Contents(unresponded),
                !.jobs[id].history = history(S.msgs[c]),
                !.jobs[id].asked = IF Len(unresponded) = 0 THEN "" ELSE combinedQuestion(unresponded),
                !.jobs[id].calls = @ + 1]

\* jobs.ts:91-128  processInBackground up to its first suspension: register
\* the token, re-read the queue, and either settle at once (no messages) or
\* call the Responder with the combined question.
processInBackground(S, id) ==
  LET c == id[1]
      S1 == [S EXCEPT !.activeJobs = @ \cup {id},
                      !.jobs = @ @@ (id :> NewJob(<<>>))]
      unresponded == getUnrespondedVisitorMessages(S1.msgs[c])
  IN IF Len(unresponded) = 0
     THEN Finally([resolvePendingMessage(S1, id, "", "error", ErrMeta("no messages"))
                     EXCEPT !.jobs[id].exit = "nomsg",
                            !.jobs[id].seen = Len(S.msgs[c]),
                            !.jobs[id].last = LastAnswer(S.msgs[c])], id)
     ELSE [S1 EXCEPT !.jobs[id].seen = Len(S.msgs[c]),
                     !.jobs[id].last = LastAnswer(S.msgs[c]),
                     !.jobs[id].question = Contents(unresponded),
                     !.jobs[id].history = history(S.msgs[c]),
                     !.jobs[id].asked = combinedQuestion(unresponded),
                     !.jobs[id].calls = @ + 1]

RECURSIVE Continue(_, _, _)

Range(seq) == {seq[i] : i \in 1..Len(seq)}

\* What of the event data the model keeps: the content of a 'message', the
\* type of an 'error' (the columns just written by resolvePendingMessage).
Payload(S, ev, evId) ==
  CASE ev = "message" -> S.msgs[evId[1]][evId[2]].content
    [] ev = "error" -> S.msgs[evId[1]][evId[2]].metadata.type
    [] OTHER -> ""

\* History of one notifyListeners call: the payload string, the streams in
\* the set at the call, those of them never removed since, those whose
\* writeSSE threw, and whether the call has returned.
Publication(S, key, payload, set) ==
  [n |-> (IF key \in DOMAIN S.published THEN S.published[key].n ELSE 0) + 1,
   payload |-> payload, subs |-> Range(set), stayed |-> Range(set), failed |-> {}, done |-> FALSE]

\* notifyListeners looking the Set up under a wrong conversation id.
notifyListenersWrongKey(S, jid, ev, evId, cont) ==
  LET c == jid[1]
      key == <<ev, evId>>
      set == IF DOMAIN S.listeners = {} THEN <<>>
             ELSE S.listeners[CHOOSE k \in DOMAIN S.listeners : \A x \in DOMAIN S.listeners : k >= x]
      payload == Payload(S, ev, evId)
      S1 == [S EXCEPT !.jobs[jid].note = [Idle EXCEPT !.ev = ev, !.evId = evId, !.payload = payload, !.cont = cont],
                      !.published = (key :> Publication(S, key, payload, set)) @@ @]
  IN IF Len(set) = 0
     THEN Continue(S1, jid, cont)
     ELSE [S1 EXCEPT !.jobs[jid].pc = "writing",
                     !.jobs[jid].note.cur = set[1],
                     !.jobs[jid].note.pos = 1]

\* jobs.ts:64-80  notifyListeners, entered from job jid; cont names what the
\* job does once the await returns.
notifyListeners(S, jid, ev, evId, cont) ==
  LET c == jid[1]
      key == <<ev, evId>>
      set == IF c \in DOMAIN S.listeners THEN S.listeners[c] ELSE <<>>
      payload == Payload(S, ev, evId)
      S1 == [S EXCEPT !.jobs[jid].note = [Idle EXCEPT !.ev = ev, !.evId = evId, !.payload = payload, !.cont = cont],
                      !.published = (key :> Publication(S, key, payload, set)) @@ @]
  IN IF Len(set) = 0
     THEN Continue(S1, jid, cont)
     ELSE [S1 EXCEPT !.jobs[jid].pc = "writing",
                     !.jobs[jid].note.cur = set[1],
                     !.jobs[jid].note.pos = 1]

\* The chain step starting the new job without publishing 'processing'.
ChainUnannounced(S, jid) ==
  LET c == jid[1]
      newUnresponded == getUnrespondedVisitorMessages(S.msgs[c])
  IN IF Len(newUnresponded) > 0
     THEN LET S0 == addPendingMessage(S, c)
              newPending == <<c, Len(S0.msgs[c])>>
              S1 == processInBackground([S0 EXCEPT !.jobs[jid].next = newPending], newPending)
          IN Finally([S1 EXCEPT !.jobs[newPending].origin = "chain",
                                !.jobs[newPending].parent = jid], jid)
     ELSE Finally(S, jid)

\* The chain step starting the new job before it publishes 'processing'.
ChainStartsFirst(S, jid) ==
  LET c == jid[1]
      newUnresponded == getUnrespondedVisitorMessages(S.msgs[c])
  IN IF Len(newUnresponded) > 0
     THEN LET S0 == addPendingMessage(S, c)
              newPending == <<c, Len(S0.msgs[c])>>
              S1 == [S0 EXCEPT !.jobs[jid].next = newPending]
              S2 == processInBackground(S1, newPending)
              S3 == [S2 EXCEPT !.jobs[newPending].origin = "chain", !.jobs[newPending].parent = jid]
          IN notifyListeners(S3, jid, "processing", newPending, "return")
     ELSE Finally(S, jid)

\* jobs.ts:167-179  chain
Chain(S, jid) ==
  LET c == jid[1]
      newUnresponded == getUnrespondedVisitorMessages(S.msgs[c])
  IN IF Len(newUnresponded) > 0
     THEN LET S1 == addPendingMessage(S, c)
              newPending == <<c, Len(S1.msgs[c])>>
          IN notifyListeners([S1 EXCEPT !.jobs[jid].next = newPending], jid, "processing", newPending, "spawn")
     ELSE Finally(S, jid)

\* What job jid does after an awaited notifyListeners returns.
Continue(S0, jid, cont) ==
  LET S == [S0 EXCEPT !.published[<<S0.jobs[jid].note.ev, S0.jobs[jid].note.evId>>].done = TRUE]
  IN CASE cont = "return" -> Finally(S, jid)
       [] cont = "chain" -> Chain(S, jid)
       [] cont = "spawn" ->
            LET newPending == S.jobs[jid].note.evId
                S1 == processInBackground(S, newPending)
            IN Finally([S1 EXCEPT !.jobs[newPending].origin = "chain",
                                  !.jobs[newPending].parent = jid], jid)

\* The cancelled branch notifying without resolving the Message.
CancelledUnresolved(S, jid) ==
  notifyListeners([S EXCEPT !.jobs[jid].exit = "cancelled"], jid, "cancelled", jid, "return")

\* The cancelled branch reporting the cancellation as a generic failure.
CancelledAsError(S, jid) ==
  LET S1 == resolvePendingMessage(S, jid, "", "error", FailMeta("cancelled", "error"))
  IN notifyListeners([S1 EXCEPT !.jobs[jid].exit = "cancelled"], jid, "error", jid, "return")

\* jobs.ts:133-138 and 183-188
Cancelled(S, jid) ==
  LET S1 == resolvePendingMessage(S, jid, "", "error", ErrMeta("cancelled"))
  IN notifyListeners([S1 EXCEPT !.jobs[jid].exit = "cancelled"], jid, "cancelled", jid, "return")

\* The abort check left out.
signalNeverAborted(j) == FALSE

\* jobs.ts:133  if (controller.signal.aborted)
signalAborted(j) == j.aborted

\* The cancelled branch of the try block without its return: the job
\* resolves as cancelled and then goes on to commit the result.
ReturnedFallThrough(S, jid, result) ==
  LET c == jid[1]
      S0 == IF signalAborted(S.jobs[jid])
            THEN resolvePendingMessage(S, jid, "", "error", ErrMeta("cancelled")) ELSE S
  IN IF result.drop
     THEN LET S1 == resolvePendingMessage(updateConversation(S0, c, TRUE), jid, "", "received", NoMeta)
          IN notifyListeners([S1 EXCEPT !.jobs[jid].exit = "drop"], jid, "message", jid, "return")
     ELSE LET S1 == IF result.spam THEN updateConversation(S0, c, TRUE) ELSE S0
              S2 == resolvePendingMessage(S1, jid, result.content, "received", SrcMeta(result.source))
          IN notifyListeners([S2 EXCEPT !.jobs[jid].exit = "success"], jid, "message", jid, "chain")

\* The try block marking the conversation as spam before it looks at the signal.
ReturnedFlagsFirst(S, jid, result) ==
  LET c == jid[1]
      S0 == IF result.spam THEN updateConversation(S, c, TRUE) ELSE S
  IN IF signalAborted(S.jobs[jid]) THEN Cancelled(S0, jid)
     ELSE IF result.drop
     THEN LET S1 == resolvePendingMessage(S0, jid, "", "received", NoMeta)
          IN notifyListeners([S1 EXCEPT !.jobs[jid].exit = "drop"], jid, "message", jid, "return")
     ELSE LET S2 == resolvePendingMessage(S0, jid, result.content, "received", SrcMeta(result.source))
          IN notifyListeners([S2 EXCEPT !.jobs[jid].exit = "success", !.jobs[jid].resolvedAt = undefined],
                             jid, "message", jid, "chain")

\* The try block publishing the answer without storing it first.
ReturnedAnnouncesFirst(S, jid, result) ==
  LET c == jid[1]
  IN IF signalAborted(S.jobs[jid]) THEN Cancelled(S, jid)
     ELSE IF result.drop
     THEN LET S1 == resolvePendingMessage(updateConversation(S, c, TRUE), jid, "", "received", NoMeta)
          IN notifyListeners([S1 EXCEPT !.jobs[jid].exit = "drop"], jid, "message", jid, "return")
     ELSE LET S1 == IF result.spam THEN updateConversation(S, c, TRUE) ELSE S
          IN notifyListeners([S1 EXCEPT !.jobs[jid].exit = "success"], jid, "message", jid, "return")

\* The try block without its drop branch: a drop verdict is answered.
ReturnedDropAnswers(S, jid, result) ==
  LET c == jid[1]
  IN IF signalAborted(S.jobs[jid]) THEN Cancelled(S, jid)
     ELSE LET S1 == IF result.spam THEN updateConversation(S, c, TRUE) ELSE S
              S2 == resolvePendingMessage(S1, jid, result.content, "received", SrcMeta(result.source))
          IN notifyListeners([S2 EXCEPT !.jobs[jid].exit = "success"], jid, "message", jid, "chain")

\* The try block without the spam flag of an answered spam verdict.
ReturnedSpamUnflagged(S, jid, result) ==
  LET c == jid[1]
  IN IF signalAborted(S.jobs[jid]) THEN Cancelled(S, jid)
     ELSE IF result.drop
     THEN LET S1 == resolvePendingMessage(updateConversation(S, c, TRUE), jid, "", "received", NoMeta)
          IN notifyListeners([S1 EXCEPT !.jobs[jid].exit = "drop"], jid, "message", jid, "return")
     ELSE LET S2 == resolvePendingMessage(S, jid, result.content, "received", SrcMeta(result.source))
          IN notifyListeners([S2 EXCEPT !.jobs[jid].exit = "success"], jid, "message", jid, "chain")

\* jobs.ts:128-165  the continuation after the Responder returned result;
\* resolvedAt is the createdAt field of the 'message' event (jobs.ts:154, 164)
Returned(S, jid, result) ==
  LET c == jid[1]
  IN IF signalAborted(S.jobs[jid]) THEN Cancelled(S, jid)
     ELSE IF result.drop
     THEN LET S1 == resolvePendingMessage(updateConversation(S, c, TRUE), jid, "", "received", NoMeta)
          IN notifyListeners([S1 EXCEPT !.jobs[jid].exit = "drop"], jid, "message", jid, "return")
     ELSE LET S1 == IF result.spam THEN updateConversation(S, c, TRUE) ELSE S
              S2 == resolvePendingMessage(S1, jid, result.content, "received", SrcMeta(result.source))
          IN notifyListeners([S2 EXCEPT !.jobs[jid].exit = "success", !.jobs[jid].resolvedAt = undefined],
                             jid, "message", jid, "chain")

\* The catch block notifying the failure without resolving the Message.
ThrownUnresolved(S, jid, error) ==
  IF signalAborted(S.jobs[jid]) THEN Cancelled(S, jid)
  ELSE LET errorType == IF error.name = "TimeoutError" THEN "timeout" ELSE "error"
       IN notifyListeners([S EXCEPT !.jobs[jid].exit = errorType], jid, "error", jid, "return")

\* The catch block resolving the Message without telling the listeners.
ThrownSilent(S, jid, error) ==
  IF signalAborted(S.jobs[jid]) THEN Cancelled(S, jid)
  ELSE LET errorType == IF error.name = "TimeoutError" THEN "timeout" ELSE "error"
           S1 == resolvePendingMessage(S, jid, "", "error", FailMeta(error.message, errorType))
       IN Finally([S1 EXCEPT !.jobs[jid].exit = errorType], jid)

\* The catch block tagging every failure as a generic error.
ThrownAlwaysError(S, jid, error) ==
  IF signalAborted(S.jobs[jid]) THEN Cancelled(S, jid)
  ELSE LET errorType == "error"
           S1 == resolvePendingMessage(S, jid, "", "error", FailMeta(error.message, errorType))
       IN notifyListeners([S1 EXCEPT !.jobs[jid].exit = errorType], jid, "error", jid, "return")

\* The catch block going on to the chain step after a failure.
ThrownRetries(S, jid, error) ==
  IF signalAborted(S.jobs[jid]) THEN Cancelled(S, jid)
  ELSE LET errorType == IF error.name = "TimeoutError" THEN "timeout" ELSE "error"
           S1 == resolvePendingMessage(S, jid, "", "error", FailMeta(error.message, errorType))
       IN notifyListeners([S1 EXCEPT !.jobs[jid].exit = errorType], jid, "error", jid, "chain")

\* jobs.ts:180-203  catch (error) after the Responder threw
Thrown(S, jid, error) ==
  IF signalAborted(S.jobs[jid]) THEN Cancelled(S, jid)
  ELSE LET errorType == IF error.name = "TimeoutError" THEN "timeout" ELSE "error"
           S1 == resolvePendingMessage(S, jid, "", "error", FailMeta(error.message, errorType))
       IN notifyListeners([S1 EXCEPT !.jobs[jid].exit = errorType], jid, "error", jid, "return")

\* The delivery loop without its try/catch: a failing writeSSE reaches the
\* catch block of the job, which resolves the Message as a failure.
WriteDoneThrows(S, jid, ok) ==
  LET c == jid[1]
      j == S.jobs[jid]
      key == <<j.note.ev, j.note.evId>>
      S0 == IF ok
            THEN [S EXCEPT !.delivered[j.note.cur] =
                             Append(@, [ev |-> j.note.ev, id |-> j.note.evId, payload |-> j.note.payload])]
            ELSE [S EXCEPT !.published[key].failed = @ \cup {j.note.cur}]
      n == S0.jobs[jid].note
      set == IF n.detached \/ c \notin DOMAIN S0.listeners THEN <<>> ELSE S0.listeners[c]
  IN IF ~ok
     THEN Finally(resolvePendingMessage(S0, jid, "", "error", FailMeta("write failed", "error")), jid)
     ELSE IF n.pos + 1 <= Len(set)
     THEN [S0 EXCEPT !.jobs[jid].note.cur = set[n.pos + 1], !.jobs[jid].note.pos = n.pos + 1]
     ELSE Continue([S0 EXCEPT !.jobs[jid].pc = "running"], jid, n.cont)

\* The delivery loop without its try/catch around one stream: a failing
\* writeSSE ends the whole delivery.
WriteDoneAborts(S, jid, ok) ==
  LET c == jid[1]
      j == S.jobs[jid]
      key == <<j.note.ev, j.note.evId>>
      S0 == IF ok
            THEN [S EXCEPT !.delivered[j.note.cur] =
                             Append(@, [ev |-> j.note.ev, id |-> j.note.evId, payload |-> j.note.payload])]
            ELSE [S EXCEPT !.published[key].failed = @ \cup {j.note.cur}]
      S1 == IF ok \/ j.note.detached THEN S0 ELSE setDelete(S0, c, j.note.cur)
      n == S1.jobs[jid].note
      set == IF n.detached \/ c \notin DOMAIN S1.listeners THEN <<>> ELSE S1.listeners[c]
  IN IF ok /\ n.pos + 1 <= Len(set)
     THEN [S1 EXCEPT !.jobs[jid].note.cur = set[n.pos + 1], !.jobs[jid].note.pos = n.pos + 1]
     ELSE Continue([S1 EXCEPT !.jobs[jid].pc = "running"], jid, n.cont)

\* jobs.ts:73-79  one turn of the delivery loop: the awaited writeSSE of the
\* current stream completes (ok) or throws, then the iterator advances.
WriteDone(S, jid, ok) ==
  LET c == jid[1]
      j == S.jobs[jid]
      key == <<j.note.ev, j.note.evId>>
      S0 == IF ok
            THEN [S EXCEPT !.delivered[j.note.cur] =
                             Append(@, [ev |-> j.note.ev, id |-> j.note.evId, payload |-> j.note.payload])]
            ELSE [S EXCEPT !.published[key].failed = @ \cup {j.note.cur}]
      S1 == IF ok \/ j.note.detached THEN S0 ELSE setDelete(S0, c, j.note.cur)
      n == S1.jobs[jid].note
      set == IF n.detached \/ c \notin DOMAIN S1.listeners THEN <<>> ELSE S1.listeners[c]
  IN IF n.pos + 1 <= Len(set)
     THEN [S1 EXCEPT !.jobs[jid].note.cur = set[n.pos + 1], !.jobs[jid].note.pos = n.pos + 1]
     ELSE Continue([S1 EXCEPT !.jobs[jid].pc = "running"], jid, n.cont)

\* cancelJob publishing the 'cancelled' event itself, ahead of the job.
cancelJobNotifies(S, id) ==
  IF id \notin S.activeJobs THEN [S |-> S, ret |-> FALSE]
  ELSE [S |-> [S EXCEPT !.jobs[id] = [@ EXCEPT !.aborted = TRUE, !.cancelAt = S.jobs[id].pc],
                        !.activeJobs = @ \ {id},
                        !.published = (<<"cancelled", id>> :>
                                         [Publication(S, <<"cancelled", id>>, "", <<>>) EXCEPT !.done = TRUE]) @@ @],
        ret |-> TRUE]

\* cancelJob with one controller shared by every running job.
cancelJobShared(S, id) ==
  IF id \notin S.activeJobs THEN [S |-> S, ret |-> FALSE]
  ELSE [S |-> [S EXCEPT !.jobs = [k \in DOMAIN @ |->
                                   IF k \in S.activeJobs
                                   THEN [@[k] EXCEPT !.aborted = TRUE, !.cancelAt = S.jobs[k].pc]
                                   ELSE @[k]],
                        !.activeJobs = @ \ {id}],
        ret |-> TRUE]

\* cancelJob writing the cancelled resolution itself instead of leaving it
\* to the job.
cancelJobResolves(S, id) ==
  IF id \notin S.activeJobs THEN [S |-> S, ret |-> FALSE]
  ELSE [S |-> resolvePendingMessage(
                [S EXCEPT !.jobs[id] = [@ EXCEPT !.aborted = TRUE, !.cancelAt = S.jobs[id].pc],
                          !.activeJobs = @ \ {id}],
                id, "", "error", ErrMeta("cancelled")),
        ret |-> TRUE]

\* cancelJob aborting the controller but leaving its map entry.
cancelJobNoDelete(S, id) ==
  IF id \notin S.activeJobs THEN [S |-> S, ret |-> FALSE]
  ELSE [S |-> [S EXCEPT !.jobs[id] = [@ EXCEPT !.aborted = TRUE, !.cancelAt = S.jobs[id].pc]],
        ret |-> TRUE]

\* jobs.ts:53-59  the state after the call and the value returned
cancelJob(S, id) ==
  IF id \notin S.activeJobs THEN [S |-> S, ret |-> FALSE]
  ELSE [S |-> [S EXCEPT !.jobs[id] = [@ EXCEPT !.aborted = TRUE, !.cancelAt = S.jobs[id].pc],
                        !.activeJobs = @ \ {id}],
        ret |-> TRUE]

\* ---------------------------------------------------------------------
\* Chat routes (api.ts) and the environment
\* ---------------------------------------------------------------------
Greeting == "greeting"
Fallback == "fallback"
RuleResponse == "rule response"

\* api.ts:24-35  POST /api/chat/start
StartConversation ==
  /\ quota.convs > 0
  /\ LET c == Cardinality(DOMAIN conversations) + 1
         S1 == [State EXCEPT !.conversations = @ @@ (c :> [spam |-> FALSE])]
     IN Commit(addMessage(S1, c, "aure", Greeting))
  /\ quota' = [quota EXCEPT !.convs = @ - 1]
  /\ lastCancel' = NoCall
  /\ UNCHANGED streams

\* api.ts:41-97  POST /api/chat/:conversationId/message, from the lookup of
\* the conversation on (the handler does not suspend after reading the body).
\* Every inbound message carries its own text, named after the row it gets.
Texts == [i \in 1..MaxRows |-> "m" \o ToString(i)]

\* History: the visitor row just stored is noted by every job of the
\* conversation whose Responder call is in flight.
Queued(S, c) ==
  [S EXCEPT !.jobs = [jid \in DOMAIN @ |->
                        IF jid[1] = c /\ @[jid].pc = "respond"
                        THEN [@[jid] EXCEPT !.during = @ \cup {Len(S.msgs[c])}] ELSE @[jid]]]

\* History: every visitor row stored is noted by every job of the
\* conversation whose Responder call is in flight.
Arrived(S, c) ==
  [S EXCEPT !.jobs = [jid \in DOMAIN @ |->
                        IF jid[1] = c /\ @[jid].pc = "respond"
                        THEN [@[jid] EXCEPT !.arrived = @ \cup {Len(S.msgs[c])}] ELSE @[jid]]]

\* The handler without its look for an existing pending Message.
handleMessageNoCheck(S, c, verdict) ==
  LET S1 == Arrived(addMessage(S, c, "visitor", Texts[Len(S.msgs[c]) + 1]), c)
  IN CASE verdict = "drop" -> updateConversation(S1, c, TRUE)
       [] verdict = "flag" -> addMessage(updateConversation(S1, c, TRUE), c, "aure", Fallback)
       [] verdict = "rule" -> addMessage(S1, c, "aure", RuleResponse)
       [] verdict = "none" ->
            LET S2 == addPendingMessage(Queued(S1, c), c)
            IN processInBackground(S2, <<c, Len(S2.msgs[c])>>)

handleMessage(S, c, verdict) ==
  LET S1 == Arrived(addMessage(S, c, "visitor", Texts[Len(S.msgs[c]) + 1]), c)
  IN CASE verdict = "drop" -> updateConversation(S1, c, TRUE)
       [] verdict = "flag" -> addMessage(updateConversation(S1, c, TRUE), c, "aure", Fallback)
       [] verdict = "rule" -> addMessage(S1, c, "aure", RuleResponse)
       [] verdict = "none" ->
            IF hasPendingAureMessage(S1.msgs[c]) # 0 THEN Queued(S1, c)
            ELSE LET S2 == addPendingMessage(Queued(S1, c), c)
                 IN processInBackground(S2, <<c, Len(S2.msgs[c])>>)

PostMessage(c, verdict) ==
  /\ c \in DOMAIN conversations
  /\ quota.visitors > 0
  /\ Commit(handleMessage(State, c, verdict))
  /\ quota' = [quota EXCEPT !.visitors = @ - 1]
  /\ lastCancel' = NoCall
  /\ UNCHANGED streams

\* api.ts:100-113  GET /api/chat/:conversationId/events: a new stream subscribes
OpenEvents(c) ==
  /\ c \in DOMAIN conversations
  /\ quota.streams > 0
  /\ streams' = Append(streams, c)
  /\ Commit(addListener([State EXCEPT !.delivered = Append(@, <<>>)], c, Len(streams) + 1))
  /\ quota' = [quota EXCEPT !.streams = @ - 1]
  /\ lastCancel' = NoCall

\* api.ts:124-131  the stream aborts and the route calls removeListener()
CloseEvents(stream) ==
  /\ stream \in 1..Len(streams)
  /\ Commit(removeListener([State EXCEPT !.unsubscribed = @ \cup {stream}], streams[stream], stream))
  /\ lastCancel' = NoCall
  /\ UNCHANGED <<streams, quota>>

\* The awaited Responder call of job jid returns or throws; the call took time.
Respond(jid, outcome) ==
  /\ jid \in DOMAIN jobs
  /\ jobs[jid].pc = "respond"
  /\ \E S1 \in {[State EXCEPT !.now = @ + 1,
                                !.jobs[jid].result = IF jobs[jid].aborted THEN outcome ELSE @]} :
        Commit(IF outcome.kind = "return" THEN Returned(S1, jid, outcome)
                                          ELSE Thrown(S1, jid, outcome))
  /\ lastCancel' = NoCall
  /\ UNCHANGED <<streams, quota>>

\* The awaited stream.writeSSE of job jid completes or throws.
WriteSSE(jid, ok) ==
  /\ jid \in DOMAIN jobs
  /\ jobs[jid].pc = "writing"
  /\ Commit(WriteDone(State, jid, ok))
  /\ lastCancel' = NoCall
  /\ UNCHANGED <<streams, quota>>

\* Ids a caller can hold: the placeholders created so far.
PlaceholderIds ==
  DOMAIN jobs \cup UNION {{<<c, i>> : i \in PendingRows(msgs[c])} : c \in DOMAIN conversations}

\* cancelJob(pendingMessageId) called directly by a client of the module
CancelJob(id) ==
  /\ id \in PlaceholderIds
  /\ lastCancel' = [id |-> id, ret |-> cancelJob(State, id).ret, called |-> TRUE]
  /\ Commit(cancelJob(State, id).S)
  /\ UNCHANGED <<streams, quota>>

\* api.ts:136-156  DELETE /api/chat/:conversationId/pending
DeletePending(c) ==
  /\ c \in DOMAIN conversations
  /\ \E i \in 1..Len(msgs[c]) : msgs[c][i].status = "pending"
  /\ LET first == CHOOSE i \in 1..Len(msgs[c]) :
                    /\ msgs[c][i].status = "pending"
                    /\ \A k \in 1..(i - 1) : msgs[c][k].status # "pending"
         pending == <<c, first>>
     IN /\ lastCancel' = [id |-> pending, ret |-> cancelJob(State, pending).ret, called |-> TRUE]
        /\ Commit(cancelJob(State, pending).S)
  /\ UNCHANGED <<streams, quota>>

\* Process start: both maps empty (jobs.ts:22,25), an empty database.
Boot ==
  /\ conversations = <<>>
  /\ msgs = [c \in Convs |-> <<>>]
  /\ activeJobs = {}
  /\ jobs = <<>>
  /\ listeners = <<>>
  /\ streams = <<>>
  /\ resolves = <<>>
  /\ published = <<>>
  /\ delivered = <<>>
  /\ lastCancel = NoCall
  /\ now = 0
  /\ unsubscribed = {}

Init ==
  /\ Boot
  /\ quota = [convs |-> MaxConvs, visitors |-> MaxVisitor, streams |-> MaxStreams]

Requests ==
  \/ StartConversation
  \/ \E c \in Convs, verdict \in Verdicts : PostMessage(c, verdict)
  \/ \E c \in Convs : OpenEvents(c)
  \/ \E stream \in Streams : CloseEvents(stream)
  \/ \E c \in Convs : DeletePending(c)

JobSteps ==
  \/ \E jid \in Ids, outcome \in Outcomes : Respond(jid, outcome)
  \/ \E jid \in Ids, ok \in BOOLEAN : WriteSSE(jid, ok)

Next == Requests \/ JobSteps

Spec == Init /\ [][Next]_vars

InitApi ==
  /\ Boot
  /\ quota = [convs |-> MaxConvs, visitors |-> ApiVisitor, streams |-> ApiStreams]

NextApi == Next \/ \E id \in Ids : CancelJob(id)

SpecApi == InitApi /\ [][NextApi]_vars

InitFan ==
  /\ Boot
  /\ quota = [convs |-> FanConvs, visitors |-> FanVisitor, streams |-> FanStreams]

SpecFan == InitFan /\ [][Next]_vars

\* A conversation as the routes leave it after n answered exchanges: the
\* greeting, then a visitor row and its answer, n times.
Exchanges(n) ==
  [i \in 1..(1 + 2 * n) |->
     IF i = 1 THEN Row(1, "aure", Greeting, "received", 0)
     ELSE IF i % 2 = 0 THEN Row(i, "visitor", Texts[i], "received", 0)
     ELSE [Row(i, "aure", "answer", "received", 0) EXCEPT !.metadata = SrcMeta("llm")]]

\* The server with conversation 1 holding about `limit` rows.
InitHist ==
  /\ \E n \in (limit \div 2 - HistSpan)..(limit \div 2 + HistSpan) :
        msgs = [c \in Convs |-> IF c = 1 THEN Exchanges(n) ELSE <<>>]
  /\ conversations = <<[spam |-> FALSE]>>
  /\ activeJobs = {}
  /\ jobs = <<>>
  /\ listeners = <<>>
  /\ streams = <<>>
  /\ resolves = <<>>
  /\ published = <<>>
  /\ delivered = <<>>
  /\ lastCancel = NoCall
  /\ now = 0
  /\ unsubscribed = {}
  /\ quota = [convs |-> 1, visitors |-> HistVisitor, streams |-> HistStreams]

SpecHist == InitHist /\ [][Next]_vars

\* ---------------------------------------------------------------------
\* Properties
\* ---------------------------------------------------------------------
Started(id) == id \in DOMAIN jobs
Settled(id) == Started(id) /\ jobs[id].pc = "done"
Msg(id) == msgs[id[1]][id[2]]
InFlight(c) == {jid \in DOMAIN jobs : jid[1] = c /\ jobs[jid].pc = "respond"}

\* C1: in every reachable state each conversation has at most one Message
\* with status pending.
AtMostOnePending ==
  \A c \in DOMAIN conversations : Cardinality(PendingRows(msgs[c])) <= 1

\* C2: in every reachable state at most one job of a conversation has called
\* the Responder and not yet seen it return or throw.
NoConcurrentModelCalls ==
  \A c \in DOMAIN conversations : Cardinality(InFlight(c)) <= 1

Resolved(id) == Msg(id).status \in {"received", "error"}

\* The event loop runs every continuation whose awaited promise has settled:
\* a Responder call that returns or throws, a writeSSE that completes or throws.
LiveInit ==
  /\ Boot
  /\ quota = [convs |-> LiveConvs, visitors |-> LiveVisitor, streams |-> LiveStreams]

\* The Responder answers, drops, or runs out of time.
LiveOutcomes == {o \in Outcomes : o.spam = o.drop /\ o.name # "Error"}

LiveResponds == \E jid \in Ids, outcome \in LiveOutcomes : Respond(jid, outcome)
LiveWrites == \E jid \in Ids, ok \in BOOLEAN : WriteSSE(jid, ok)

LiveNext == Requests \/ LiveResponds \/ LiveWrites

LiveSpec ==
  /\ LiveInit /\ [][LiveNext]_vars
  /\ WF_vars(LiveResponds)
  /\ WF_vars(LiveWrites)

ExactlyOnceResolution ==
  /\ \A id \in DOMAIN jobs : Settled(id) => Count(resolves, id) = 1
  /\ \A id \in DOMAIN resolves : resolves[id] <= 1

\* A job cancelled in flight and the job it was chained from have both settled.
CancelledChainSettled ==
  \E id \in DOMAIN jobs :
     /\ jobs[id].origin = "chain" /\ Settled(id) /\ jobs[id].exit = "cancelled"
     /\ \E k \in DOMAIN jobs : k # id /\ k[1] = id[1] /\ Settled(k) /\ jobs[k].exit = "success"

IsCancelled(m) == m.status = "error" /\ m.content = "" /\ m.metadata = ErrMeta("cancelled")

\* C5: a job cancelled while its Responder call was in flight resolves its
\* Message as error, empty content, reason 'cancelled', whatever the
\* Responder returned or threw.
CancellationPrecedence ==
  \A id \in DOMAIN jobs :
     (jobs[id].cancelAt = "respond" /\ jobs[id].pc # "respond") => IsCancelled(Msg(id))

\* A job was cancelled in flight and its Responder then returned an answer.
CancelledDespiteAnswer ==
  \E id \in DOMAIN jobs :
     /\ jobs[id].cancelAt = "respond" /\ Settled(id)
     /\ jobs[id].result.kind = "return" /\ ~jobs[id].result.drop

\* C6: whenever cancel(id) returned true, the settled Message id is
\* error/'cancelled', never received.
CancelAlwaysWins ==
  \A id \in DOMAIN jobs : (jobs[id].aborted /\ Settled(id)) => IsCancelled(Msg(id))

Frame(S) == [S EXCEPT !.jobs = [k \in DOMAIN @ |-> [@[k] EXCEPT !.cancelAt = ""]]]

Signalled(S, id) ==
  [Frame(S) EXCEPT !.jobs[id].aborted = TRUE, !.activeJobs = @ \ {id}]

\* C7: a cancel(id) call returns true exactly when the map held a token for
\* id; then that token is signalled and its entry removed and nothing else
\* changes; otherwise no state changes at all.
CancelContract ==
  [][lastCancel'.called =>
       LET id == lastCancel'.id
       IN /\ lastCancel'.ret = (id \in activeJobs)
          /\ streams' = streams
          /\ IF id \in activeJobs
             THEN Frame(State)' = Signalled(State, id)
             ELSE State' = State]_vars

\* cancel(id) has just returned true for a job awaiting the Responder.
CancelReturnedTrue ==
  /\ lastCancel.called /\ lastCancel.ret
  /\ lastCancel.id \in DOMAIN jobs /\ jobs[lastCancel.id].aborted
  /\ lastCancel.id \notin activeJobs

TokenCleanup ==
  /\ \A id \in DOMAIN jobs : Settled(id) => id \notin activeJobs
  /\ \A id \in DOMAIN jobs : (~Settled(id) /\ ~jobs[id].aborted) => id \in activeJobs

\* A chained job holds its token after the job that chained it has settled.
ChainedTokenKept ==
  \E id \in DOMAIN jobs :
     /\ jobs[id].origin = "chain" /\ jobs[id].pc = "respond" /\ id \in activeJobs
     /\ \E k \in DOMAIN jobs : k # id /\ k[1] = id[1] /\ Settled(k)

\* C10 as stated: a started job whose id has no token has a Message that is
\* not pending.
NoPendingWithoutToken ==
  \A id \in DOMAIN jobs : id \notin activeJobs => Msg(id).status # "pending"

\* C10 amended: ... unless cancel(id) removed the token and the job is still
\* awaiting the Responder.
NoPendingAfterCleanup ==
  \A id \in DOMAIN jobs :
     id \notin activeJobs =>
        \/ Msg(id).status # "pending"
        \/ (jobs[id].aborted /\ jobs[id].pc = "respond")

\* A job settled through the failure path: token gone, Message resolved.
FailedJobCleaned ==
  \E id \in DOMAIN jobs :
     Settled(id) /\ jobs[id].exit = "timeout" /\ id \notin activeJobs /\ Msg(id).status = "error"

\* Jobs started by the chain step of job id.
ChainedFrom(id) == {k \in DOMAIN jobs : jobs[k].parent = id}

\* C11: once a job has settled, whichever way, and visitor messages were
\* queued for the model while its Responder call was in flight, exactly one
\* chained job has been started by it.
ChainingCorrectness ==
  \A id \in DOMAIN jobs :
     (Settled(id) /\ jobs[id].during # {}) => Cardinality(ChainedFrom(id)) = 1

Terminal == {"message", "cancelled", "error"}

\* The terminal event of each exit path that publishes one.
EventOf(exit) ==
  CASE exit \in {"success", "drop"} -> "message"
    [] exit = "cancelled" -> "cancelled"
    [] exit \in {"timeout", "error"} -> "error"

\* C13 as stated: a job that has taken any of its exit paths (success, drop,
\* no-messages, cancelled, error) has resolved its Message and has published
\* a terminal event for its id.
SettlementNotifies ==
  \A id \in DOMAIN jobs :
     jobs[id].exit # "" =>
        /\ Resolved(id)
        /\ \E ev \in Terminal : <<ev, id>> \in DOMAIN published

\* C13 amended: every exit path resolves the Message; every exit path other
\* than no-messages has also published the terminal event of that path for
\* its id, and the no-messages path publishes none.
SettlementNotifiesButNoMessages ==
  \A id \in DOMAIN jobs :
     jobs[id].exit # "" =>
        /\ Resolved(id)
        /\ IF jobs[id].exit = "nomsg"
           THEN \A ev \in Terminal : <<ev, id>> \notin DOMAIN published
           ELSE <<EventOf(jobs[id].exit), id>> \in DOMAIN published

\* A job failed on a timeout and a subscriber received its error event.
ErrorEventDelivered ==
  \E id \in DOMAIN jobs :
     /\ Settled(id) /\ jobs[id].exit = "timeout" /\ <<"error", id>> \in DOMAIN published
     /\ \E s \in DOMAIN delivered :
           \E i \in 1..Len(delivered[s]) : delivered[s][i].ev = "error" /\ delivered[s][i].id = id

Received(s, key) ==
  \E i \in 1..Len(delivered[s]) : delivered[s][i].ev = key[1] /\ delivered[s][i].id = key[2]

Subscribers(L, c) == IF c \in DOMAIN L THEN Range(L[c]) ELSE {}

\* C14: when a delivery of an event to one subscriber fails, that subscriber
\* is no longer in the conversation's set, every other subscriber stays in
\* it, and no Message already resolved changes; and once a publish in which
\* a delivery failed has returned, every other subscriber that was in the
\* set at the call and stayed in it has received the event.
ListenerIsolation ==
  [][/\ \A key \in DOMAIN published :
          \A x \in published'[key].failed \ published[key].failed :
             /\ x \notin Subscribers(listeners', key[2][1])
             /\ Subscribers(listeners, key[2][1]) \ {x} \subseteq Subscribers(listeners', key[2][1])
             /\ \A id \in DOMAIN resolves :
                   msgs'[id[1]][id[2]] = msgs[id[1]][id[2]] /\ resolves'[id] = resolves[id]
     /\ \A key \in DOMAIN published' :
          (published'[key].done /\ published'[key].failed # {}) =>
             \A s \in published'[key].stayed : Received(s, key)']_vars

\* A publish to two subscribers has returned: the delivery to one of them
\* failed and the other one received the event.
OneFailedOtherReceived ==
  \E key \in DOMAIN published :
     /\ published[key].done /\ published[key].failed # {}
     /\ \E s \in published[key].stayed : Received(s, key) /\ s \notin published[key].failed

\* The registry as its clients see it: the subscribers of every conversation.
Audience(L) == [c \in Convs |-> Subscribers(L, c)]

\* subscribe adds the channel and nothing else; the closure it returns
\* removes the channel and nothing else, and leaves no empty set behind.
SubscribeUnsubscribe ==
  /\ \A c \in DOMAIN conversations :
        LET s == Len(streams) + 1
        IN Audience(addListener(State, c, s).listeners) =
             [Audience(listeners) EXCEPT ![c] = @ \cup {s}]
  /\ \A s \in 1..Len(streams) :
        LET c == streams[s]
            R == removeListener(State, c, s).listeners
        IN /\ Audience(R) = [Audience(listeners) EXCEPT ![c] = @ \ {s}]
           /\ c \in DOMAIN R => R[c] # <<>>

PublishDelivers ==
  /\ \A key \in DOMAIN published :
        /\ (published[key].done /\ published[key].subs = {}) =>
              \A s \in DOMAIN delivered : ~Received(s, key)
        /\ published[key].done => \A s \in published[key].stayed : Received(s, key)
  /\ \A s \in DOMAIN delivered :
        \A i \in 1..Len(delivered[s]) :
           LET key == <<delivered[s][i].ev, delivered[s][i].id>>
           IN key \in DOMAIN published /\ delivered[s][i].payload = published[key].payload

\* A publish to two subscribers has returned and both received the event.
BothReceived ==
  \E key \in DOMAIN published :
     /\ published[key].done /\ Cardinality(published[key].subs) >= 2
     /\ \A s \in published[key].subs : Received(s, key)

IsEvent(e, ev, id) == e.ev = ev /\ e.id = id

\* C17: on every stream, no 'processing' event of an id follows a 'message',
\* 'error' or 'cancelled' event of that id; and a stream that receives such a
\* terminal event and was subscribed from the publish of 'processing' for
\* that id to its return has received that 'processing' event earlier.
ProcessingFirst ==
  \A s \in DOMAIN delivered :
     \A i \in 1..Len(delivered[s]) :
        LET e == delivered[s][i]
            key == <<"processing", e.id>>
        IN e.ev \in Terminal =>
              /\ \A k \in (i + 1)..Len(delivered[s]) : ~IsEvent(delivered[s][k], "processing", e.id)
              /\ (key \in DOMAIN published /\ s \in published[key].stayed) =>
                    \E k \in 1..(i - 1) : IsEvent(delivered[s][k], "processing", e.id)

\* A stream received 'processing' for a chained id and later the 'message'
\* event of that id.
ProcessingThenMessage ==
  \E s \in DOMAIN delivered :
     \E i, k \in 1..Len(delivered[s]) :
        /\ k < i
        /\ IsEvent(delivered[s][k], "processing", delivered[s][i].id)
        /\ delivered[s][i].ev = "message"

Times(key) == IF key \in DOMAIN published THEN published[key].n ELSE 0

\* C18: a job that settles as cancelled has published exactly one 'cancelled'
\* event for its id and no 'error' or 'message' event for it, and its
\* Message has status error with reason 'cancelled' and no error-kind tag.
CancelledDistinct ==
  \A id \in DOMAIN jobs :
     jobs[id].exit = "cancelled" =>
        /\ Times(<<"cancelled", id>>) = 1
        /\ Times(<<"error", id>>) = 0 /\ Times(<<"message", id>>) = 0
        /\ Msg(id).status = "error"
        /\ Msg(id).metadata.error = "cancelled" /\ Msg(id).metadata.type = ""

\* A cancelled job has settled and a subscriber received its 'cancelled' event.
CancelledEventDelivered ==
  \E id \in DOMAIN jobs :
     /\ Settled(id) /\ jobs[id].exit = "cancelled"
     /\ \E s \in DOMAIN delivered : Received(s, <<"cancelled", id>>)

\* C19: every pending Message that has not been cancelled yet has a token
\* in the active-token map, so that a first cancel of its id returns true.
CancellableUntilSettled ==
  \A c \in DOMAIN conversations :
     \A i \in PendingRows(msgs[c]) :
        \/ <<c, i>> \in activeJobs
        \/ (<<c, i>> \in DOMAIN jobs /\ jobs[<<c, i>>].aborted)

\* C20: in every reachable state, the handler given a visitor message that
\* needs the model stores it and, when the conversation has a pending
\* Message, adds no other row, starts no job and registers no token; when it
\* has none, it adds exactly one pending row after the visitor row and
\* starts exactly one job, for that row.
HandlerSerialization ==
  \A c \in DOMAIN conversations :
     LET n == Len(msgs[c])
         S2 == handleMessage(State, c, "none")
         stored == Append(msgs[c], Row(n + 1, "visitor", Texts[n + 1], "received", now))
         id == <<c, n + 2>>
     IN IF PendingRows(msgs[c]) # {}
        THEN /\ S2.msgs[c] = stored
             /\ DOMAIN S2.jobs = DOMAIN jobs
             /\ S2.activeJobs = activeJobs
        ELSE /\ S2.msgs[c] = Append(stored, Row(n + 2, "aure", "", "pending", now))
             /\ id \notin DOMAIN jobs
             /\ DOMAIN S2.jobs = DOMAIN jobs \cup {id}
             /\ S2.activeJobs = activeJobs \cup {id}
             /\ S2.jobs[id].pc = "respond"

\* The handler has stored a visitor message behind the pending Message of
\* the only job, whose Responder call is still in flight.
QueuedBehindPending ==
  \E id \in DOMAIN jobs :
     /\ DOMAIN jobs = {id} /\ jobs[id].pc = "respond" /\ jobs[id].during # {}
     /\ PendingRows(msgs[id[1]]) = {id[2]}

None == <<0, 0>>

\* C21: a job that resolved its Message with status error (failure, timeout,
\* cancellation, no messages) has created no pending Message and started no
\* job; every placeholder was created by the inbound handler for a visitor
\* message or by the chain step of a job that resolved with success.
NoAutomaticRetry ==
  /\ \A id \in DOMAIN jobs :
        jobs[id].exit \in {"timeout", "error", "cancelled", "nomsg"} =>
           jobs[id].next = None /\ ChainedFrom(id) = {}
  /\ \A id \in PlaceholderIds :
        \/ id \in DOMAIN jobs /\ jobs[id].origin = "request"
             /\ msgs[id[1]][id[2] - 1].role = "visitor"
        \/ \E k \in DOMAIN jobs : jobs[k].next = id /\ jobs[k].exit = "success"

\* A job failed on a timeout while a visitor message was queued behind it:
\* the job has settled and the conversation has no pending Message and no
\* live job.
FailedAndIdle ==
  \E id \in DOMAIN jobs :
     /\ Settled(id) /\ jobs[id].exit = "timeout" /\ jobs[id].during # {}
     /\ PendingRows(msgs[id[1]]) = {}
     /\ \A k \in DOMAIN jobs : k[1] = id[1] => Settled(k)

RECURSIVE Turn(_, _, _)

\* The contents of the visitor rows lo..hi of ms, in row order, with a blank
\* line between two of them.
Turn(ms, lo, hi) ==
  IF lo > hi THEN ""
  ELSE IF ms[lo].role # "visitor" THEN Turn(ms, lo + 1, hi)
  ELSE LET rest == Turn(ms, lo + 1, hi)
       IN IF rest = "" THEN ms[lo].content ELSE ms[lo].content \o "\n\n" \o rest

\* C22: a job that found unanswered visitor messages has called the
\* Responder exactly once, with the contents of all visitor rows that were
\* unanswered when it read the store (those after the latest answer, up to
\* the last row then stored), in arrival order and joined by a blank line.
CombinedQuestion ==
  \A id \in DOMAIN jobs :
     jobs[id].exit # "nomsg" =>
        /\ jobs[id].calls = 1
        /\ jobs[id].asked # ""
        /\ jobs[id].asked = Turn(msgs[id[1]], jobs[id].last + 1, jobs[id].seen)

\* A job was asked two visitor messages as one question.
TwoMessagesOneQuestion ==
  \E id \in DOMAIN jobs :
     /\ Len(jobs[id].question) = 2
     /\ jobs[id].asked = jobs[id].question[1] \o "\n\n" \o jobs[id].question[2]

\* C23: a job that found no unanswered visitor message has resolved its
\* Message with status error and reason 'no messages', has made no Responder
\* call, has created no placeholder and chained no job, has settled and
\* holds no token; and only such a job takes this exit.
NoMessagesGuard ==
  \A id \in DOMAIN jobs :
     /\ (jobs[id].question = <<>>) = (jobs[id].exit = "nomsg")
     /\ jobs[id].question = <<>> =>
           /\ Msg(id).status = "error" /\ Msg(id).content = ""
           /\ Msg(id).metadata = ErrMeta("no messages")
           /\ jobs[id].calls = 0
           /\ jobs[id].next = None /\ ChainedFrom(id) = {}
           /\ Settled(id) /\ id \notin activeJobs

\* A chained job found nothing to answer and settled on the guard.
GuardTaken ==
  \E id \in DOMAIN jobs :
     jobs[id].exit = "nomsg" /\ jobs[id].origin = "chain" /\ Count(resolves, id) = 1

\* Jobs whose Responder call is in flight and for which no cancel was requested.
Uncancelled == {jid \in DOMAIN jobs : jobs[jid].pc = "respond" /\ ~jobs[jid].aborted}

\* The job has stopped or will stop when the publish under way returns.
Stops(j) == j.next = None /\ (j.pc = "done" \/ (j.pc = "writing" /\ j.note.cont = "return"))

\* The state differs from the current one in nothing but conversation c,
\* row id and job id, and has no new row, job or token.
OnlyOwn(S, id) ==
  /\ \A c \in DOMAIN conversations : c # id[1] => S.conversations[c] = conversations[c] /\ S.msgs[c] = msgs[c]
  /\ Len(S.msgs[id[1]]) = Len(msgs[id[1]])
  /\ \A i \in 1..Len(msgs[id[1]]) : i # id[2] => S.msgs[id[1]][i] = msgs[id[1]][i]
  /\ DOMAIN S.jobs = DOMAIN jobs
  /\ S.activeJobs \subseteq activeJobs

DropOutcomes == {o \in Outcomes : o.kind = "return" /\ o.drop}

\* C24: whenever the Responder returns drop to a job for which no cancel was
\* requested, the job sets the conversation's spam flag, resolves its Message
\* as received with empty content, publishes a 'message' event with empty
\* content and stops; and every job that took the drop exit left that behind.
DropVerdict ==
  /\ \A jid \in Uncancelled : \A o \in DropOutcomes :
        LET S == Returned(State, jid, o)
            m == S.msgs[jid[1]][jid[2]]
        IN /\ S.conversations[jid[1]].spam
           /\ m.status = "received" /\ m.content = "" /\ m.metadata = NoMeta
           /\ <<"message", jid>> \in DOMAIN S.published
           /\ S.published[<<"message", jid>>].payload = ""
           /\ Stops(S.jobs[jid]) /\ OnlyOwn(S, jid)
  /\ \A id \in DOMAIN jobs :
        jobs[id].exit = "drop" =>
           /\ conversations[id[1]].spam
           /\ Msg(id).status = "received" /\ Msg(id).content = ""
           /\ Times(<<"message", id>>) = 1 /\ published[<<"message", id>>].payload = ""
           /\ Stops(jobs[id])

\* A job dropped its turn and a subscriber received the empty 'message' event.
DropDelivered ==
  \E id \in DOMAIN jobs :
     /\ Settled(id) /\ jobs[id].exit = "drop"
     /\ \E s \in DOMAIN delivered :
           \E i \in 1..Len(delivered[s]) :
              IsEvent(delivered[s][i], "message", id) /\ delivered[s][i].payload = ""

Plain == CHOOSE o \in Outcomes : o.kind = "return" /\ ~o.spam /\ ~o.drop

SpamAnswers == {o \in Outcomes : o.kind = "return" /\ o.spam /\ ~o.drop}

\* C25: whenever the Responder returns spam without drop to a job for which
\* no cancel was requested, the job sets the conversation's spam flag and
\* leaves the store, the jobs and the publications exactly as the same
\* answer without the spam verdict does: the Message is received with the
\* generated content and source.
SpamButAnswer ==
  \A jid \in Uncancelled : \A o \in SpamAnswers :
     LET S == Returned(State, jid, o)
         P == Returned(State, jid, [o EXCEPT !.spam = FALSE])
         m == S.msgs[jid[1]][jid[2]]
     IN /\ S.conversations[jid[1]].spam
        /\ m.status = "received" /\ m.content = o.content /\ m.metadata = SrcMeta(o.source)
        /\ S.msgs = P.msgs /\ S.jobs = P.jobs /\ S.activeJobs = P.activeJobs
        /\ S.published = P.published /\ S.listeners = P.listeners
        /\ \A c \in DOMAIN conversations : c # jid[1] => S.conversations[c] = P.conversations[c]

\* The only visitor message of a conversation went to the model, the job
\* answered it, and the conversation is marked spam.
SpamAnswered ==
  \E id \in DOMAIN jobs :
     /\ Settled(id) /\ jobs[id].exit = "success" /\ conversations[id[1]].spam
     /\ Len(msgs[id[1]]) = 3 /\ id[2] = 3 /\ Msg(id).content = Plain.content

Failures == {o \in Outcomes : o.kind = "throw"}

Kind(o) == IF o.name = "TimeoutError" THEN "timeout" ELSE "error"

\* C26: whenever the Responder call of a job for which no cancel was
\* requested fails, the job resolves its Message with status error, empty
\* content, the failure's message as reason and kind timeout exactly for a
\* TimeoutError, else kind error, publishes an 'error' event of that kind and
\* stops; and every job that took the failure exit left that behind.
FailureClassification ==
  /\ \A jid \in Uncancelled : \A o \in Failures :
        LET S == Thrown(State, jid, o)
            m == S.msgs[jid[1]][jid[2]]
        IN /\ m.status = "error" /\ m.content = ""
           /\ m.metadata = FailMeta(o.message, Kind(o))
           /\ <<"error", jid>> \in DOMAIN S.published
           /\ S.published[<<"error", jid>>].payload = Kind(o)
           /\ S.conversations = conversations
           /\ Stops(S.jobs[jid]) /\ OnlyOwn(S, jid)
  /\ \A id \in DOMAIN jobs :
        jobs[id].exit \in {"timeout", "error"} =>
           /\ Msg(id).status = "error" /\ Msg(id).content = ""
           /\ Msg(id).metadata.type = jobs[id].exit
           /\ Times(<<"error", id>>) = 1 /\ published[<<"error", id>>].payload = jobs[id].exit

\* A job failed on an error that is no timeout and a subscriber received
\* the 'error' event of kind error.
GenericErrorDelivered ==
  \E id \in DOMAIN jobs :
     /\ Settled(id) /\ jobs[id].exit = "error" /\ Msg(id).metadata = FailMeta("failed", "error")
     /\ \E s \in DOMAIN delivered :
           \E i \in 1..Len(delivered[s]) :
              IsEvent(delivered[s][i], "error", id) /\ delivered[s][i].payload = "error"

\* C27: a job that has created the next pending Message had resolved its own
\* Message before (once, with success); and a chained job has been started
\* only after the publish of 'processing' for its id returned, by the job
\* that created its placeholder.
ChainingOrder ==
  /\ \A id \in DOMAIN jobs :
        jobs[id].next # None =>
           /\ Resolved(id) /\ Count(resolves, id) = 1 /\ jobs[id].exit = "success"
           /\ jobs[id].next[1] = id[1] /\ jobs[id].next[2] > id[2]
  /\ \A k \in DOMAIN jobs :
        jobs[k].origin = "chain" =>
           /\ <<"processing", k>> \in DOMAIN published
           /\ published[<<"processing", k>>].done
           /\ jobs[k].parent \in DOMAIN jobs /\ jobs[jobs[k].parent].next = k
  /\ \A id \in DOMAIN jobs :
        (jobs[id].pc = "writing" /\ jobs[id].note.ev = "processing") =>
           jobs[id].note.evId = jobs[id].next /\ jobs[id].next \notin DOMAIN jobs

\* A chained job is awaiting the Responder after a subscriber received the
\* 'processing' event of its id; the job that chained it has its answer stored.
ChainedAfterProcessing ==
  \E k \in DOMAIN jobs :
     /\ jobs[k].origin = "chain" /\ jobs[k].pc = "respond"
     /\ \E s \in DOMAIN delivered : Received(s, <<"processing", k>>)
     /\ Msg(jobs[k].parent).status = "received"

\* C28: a job that resolved with success, and during whose Responder call
\* (from its read of the store to its resolve) no visitor message was
\* stored in the conversation, creates no pending Message and chains no job.
NoSpuriousChain ==
  \A id \in DOMAIN jobs :
     (jobs[id].exit = "success" /\ jobs[id].arrived = {}) =>
        jobs[id].next = None /\ ChainedFrom(id) = {}

\* C29: every job is signalled only by a cancel of its own pending id that
\* returned true; a cancel(id) leaves the record and the token of every other
\* job (of another conversation, chained before or after job id) as they
\* were, and a job settles as cancelled only if its own token was signalled.
IndependentTokens ==
  [][/\ \A k \in DOMAIN jobs' :
          (jobs'[k].aborted /\ ~(k \in DOMAIN jobs /\ jobs[k].aborted)) =>
             (lastCancel'.called /\ lastCancel'.ret /\ lastCancel'.id = k)
     /\ lastCancel'.called =>
          /\ DOMAIN jobs' = DOMAIN jobs
          /\ \A k \in DOMAIN jobs \ {lastCancel'.id} :
                jobs'[k] = jobs[k] /\ (k \in activeJobs' <=> k \in activeJobs)
     /\ \A k \in DOMAIN jobs' : jobs'[k].exit = "cancelled" => jobs'[k].aborted]_vars

\* cancel has just returned true for a chained job whose parent resolved with
\* success and was never signalled.
ChainedJobCancelled ==
  /\ lastCancel.called /\ lastCancel.ret
  /\ lastCancel.id \in DOMAIN jobs
  /\ jobs[lastCancel.id].origin = "chain" /\ jobs[lastCancel.id].aborted
  /\ LET p == jobs[lastCancel.id].parent
     IN p \in DOMAIN jobs /\ jobs[p].exit = "success" /\ ~jobs[p].aborted
        /\ Msg(p).status = "received"

\* C30: a cancel(id) call writes nothing to the Message Store, the listener
\* registry or any stream; a signalled job still awaiting the Responder has
\* its Message pending; and the row of a job signalled after it committed
\* its resolution is never the cancelled resolution.
CooperativeCancelFrame ==
  [][/\ lastCancel'.called =>
          /\ msgs' = msgs /\ conversations' = conversations
          /\ resolves' = resolves
          /\ listeners' = listeners /\ streams' = streams
          /\ published' = published /\ delivered' = delivered
     /\ \A id \in DOMAIN jobs' :
          /\ (jobs'[id].aborted /\ jobs'[id].pc = "respond") =>
                msgs'[id[1]][id[2]].status = "pending"
          /\ (jobs'[id].aborted /\ jobs'[id].cancelAt # "respond") =>
                /\ msgs'[id[1]][id[2]].status # "pending"
                /\ ~IsCancelled(msgs'[id[1]][id[2]])
                /\ id \in DOMAIN jobs => msgs'[id[1]][id[2]] = msgs[id[1]][id[2]]]_vars

\* cancel has just returned true for a job that had already committed its
\* answer and was publishing it: the row is still the answer.
LateCancelKeepsAnswer ==
  /\ lastCancel.called /\ lastCancel.ret
  /\ lastCancel.id \in DOMAIN jobs
  /\ jobs[lastCancel.id].cancelAt = "writing"
  /\ Msg(lastCancel.id).status = "received"
  /\ Count(resolves, lastCancel.id) = 1

\* The turns of the rows of ms that are not pending, oldest first.
Turns(ms) ==
  LET rows == SelectSeq(ms, NotPending)
  IN [i \in 1..Len(rows) |-> LLMMessage(rows[i])]

\* C31: the history a job hands to the Responder is the last `window` of the
\* turns of all rows of the conversation that are not pending when the job
\* reads the store, oldest first, however long the conversation is.
HistoryWindow ==
  [][\A id \in DOMAIN jobs' \ DOMAIN jobs :
       jobs'[id].calls > 0 =>
          jobs'[id].history = slice(Turns(msgs'[id[1]]), window)]_vars

\* C32: when a job resolves its Message with success, the stored row carries
\* the time of that resolution, which is later than the time the placeholder
\* was created, and the createdAt of the 'message' event is that same time.
CompletionTimestamp ==
  [][\A id \in DOMAIN jobs :
       (jobs[id].exit = "" /\ jobs'[id].exit = "success") =>
          /\ msgs'[id[1]][id[2]].createdAt = now'
          /\ jobs'[id].resolvedAt = [defined |-> TRUE, at |-> now']]_vars

Asked(c, i) ==
  \E k \in DOMAIN jobs :
     k[1] = c /\ jobs[k].calls > 0 /\ msgs[c][i].content \in Range(jobs[k].question)

\* C34: every visitor message the handler answered 'queued' is eventually
\* part of the question of a Responder call, whichever way the job in flight
\* settles and without another message from the visitor: again and again
\* every message queued so far has been asked.
NoStrandedInput ==
  []<>(\A id \in DOMAIN jobs : \A i \in jobs[id].during : Asked(id[1], i))

\* C35: whenever a terminal event (message, cancelled, error) for a pending
\* id has been published, is being written to a stream, or has been
\* delivered, the Message with that id is resolved in the store.
WriteBeforeNotify ==
  /\ \A key \in DOMAIN published :
        key[1] \in Terminal => Msg(key[2]).status \in {"received", "error"}
  /\ \A id \in DOMAIN jobs :
        (jobs[id].pc = "writing" /\ jobs[id].note.ev \in Terminal) =>
           Msg(jobs[id].note.evId).status \in {"received", "error"}
  /\ \A s \in DOMAIN delivered : \A i \in 1..Len(delivered[s]) :
        delivered[s][i].ev \in Terminal =>
           Msg(delivered[s][i].id).status \in {"received", "error"}

\* The 'message' event of a job is being written to a subscriber and the
\* store already holds the answer.
AnswerStoredWhileWriting ==
  \E id \in DOMAIN jobs :
     /\ jobs[id].pc = "writing" /\ jobs[id].note.ev = "message" /\ jobs[id].note.evId = id
     /\ Msg(id).status = "received" /\ Msg(id).content = jobs[id].note.payload
     /\ Msg(id).content = "answer"

\* C36: the events message, error and cancelled carrying one pending id are
\* published at most once in total, and no stream receives two of them.
OneTerminalEvent ==
  /\ \A key \in DOMAIN published :
        Times(<<"message", key[2]>>) + Times(<<"error", key[2]>>)
          + Times(<<"cancelled", key[2]>>) <= 1
  /\ \A s \in DOMAIN delivered : \A i, k \in 1..Len(delivered[s]) :
        (/\ delivered[s][i].ev \in Terminal /\ delivered[s][k].ev \in Terminal
         /\ delivered[s][i].id = delivered[s][k].id) => i = k

\* A job was cancelled while the Responder was producing an answer: the
\* only terminal event of its id is 'cancelled', and a stream has received it.
OnlyCancelledPublished ==
  \E id \in DOMAIN jobs :
     /\ Settled(id) /\ jobs[id].aborted /\ jobs[id].result.kind = "return"
     /\ Times(<<"cancelled", id>>) = 1
     /\ Times(<<"message", id>>) = 0 /\ Times(<<"error", id>>) = 0
     /\ \E s \in DOMAIN delivered :
           /\ Received(s, <<"cancelled", id>>)
           /\ ~Received(s, <<"message", id>>) /\ ~Received(s, <<"error", id>>)

\* C37 as stated: in every reachable state the listener map holds no
\* conversation entry whose subscriber set is empty.
NoEmptyEntry ==
  \A c \in DOMAIN listeners : listeners[c] # <<>>

\* C37 amended: the map holds an entry with an empty set only for a
\* conversation in which a delivery of a publish failed; subscribe leaves no
\* empty set, and the unsubscribe of any channel of a conversation leaves no
\* empty set under that conversation.
NoEmptyEntryButFailedDelivery ==
  /\ \A c \in DOMAIN listeners :
        listeners[c] = <<>> =>
           \E key \in DOMAIN published : key[2][1] = c /\ published[key].failed # {}
  /\ \A c \in DOMAIN conversations :
        LET A == addListener(State, c, Len(streams) + 1).listeners
        IN \A k \in DOMAIN A : A[k] = <<>> => (k # c /\ k \in DOMAIN listeners /\ listeners[k] = <<>>)
  /\ \A s \in 1..Len(streams) :
        LET R == removeListener(State, streams[s], s).listeners
        IN \A k \in DOMAIN R : R[k] = <<>> => (k # streams[s] /\ k \in DOMAIN listeners /\ listeners[k] = <<>>)

\* A failed delivery has emptied the set of a conversation and the entry is
\* still in the map.
EmptyEntryLeft ==
  \E c \in DOMAIN listeners :
     /\ listeners[c] = <<>>
     /\ \E key \in DOMAIN published : key[2][1] = c /\ published[key].failed # {}

\* The send job j is suspended on: event, id and stream.
Sending(j) == <<j.note.ev, j.note.evId, j.note.cur>>

\* C38: no step starts a send of an event on a stream whose unsubscribe has
\* run, also when the publish was already running over the subscribers of
\* the conversation and suspended on the delivery to another stream; and a
\* stream whose unsubscribe has run is in no subscriber set.
NoSendAfterUnsubscribe ==
  [][/\ \A jid \in DOMAIN jobs' :
          (/\ jobs'[jid].pc = "writing"
           /\ (jid \notin DOMAIN jobs \/ jobs[jid].pc # "writing"
                  \/ Sending(jobs[jid]) # Sending(jobs'[jid])))
          => jobs'[jid].note.cur \notin unsubscribed'
     /\ \A c \in DOMAIN listeners' : Range(listeners'[c]) \cap unsubscribed' = {}]_vars

\* A publish to two subscribers was suspended on the delivery to the first
\* when the second unsubscribed; it has returned, the first has received the
\* event and the second has not.
UnsubscribedDuringPublish ==
  \E key \in DOMAIN published : \E a, b \in published[key].subs :
     /\ a # b /\ published[key].done
     /\ b \in unsubscribed /\ b \notin published[key].failed
     /\ Received(a, key) /\ ~Received(b, key)

\* The streams opened for conversation c.
StreamsOf(c) == {s \in 1..Len(streams) : streams[s] = c}

\* C39: an event published for a conversation is sent and delivered only to
\* streams opened for that conversation, and a step in which a delivery
\* fails leaves the subscriber set of every other conversation as it was.
FanOutIsolation ==
  [][/\ \A key \in DOMAIN published' : published'[key].subs \subseteq StreamsOf(key[2][1])'
     /\ \A jid \in DOMAIN jobs' :
          jobs'[jid].pc = "writing" => jobs'[jid].note.cur \in StreamsOf(jid[1])'
     /\ \A s \in DOMAIN delivered' : \A i \in 1..Len(delivered'[s]) :
          delivered'[s][i].id[1] = streams'[s]
     /\ \A key \in DOMAIN published :
          published'[key].failed # published[key].failed =>
             \A c \in Convs \ {key[2][1]} :
                /\ c \in DOMAIN listeners' <=> c \in DOMAIN listeners
                /\ c \in DOMAIN listeners => listeners'[c] = listeners[c]]_vars

\* A delivery failed in one conversation while a stream of another
\* conversation is subscribed: that stream is still subscribed and has
\* received nothing.
OtherConversationUntouched ==
  \E key \in DOMAIN published : \E s \in 1..Len(streams) :
     /\ published[key].failed # {}
     /\ streams[s] # key[2][1]
     /\ s \in Subscribers(listeners, streams[s])
     /\ delivered[s] = <<>>

\* The state after the Responder call of job jid ends with outcome o.
AfterRespond(jid, o) ==
  LET S1 == [State EXCEPT !.now = @ + 1, !.jobs[jid].result = IF jobs[jid].aborted THEN o ELSE @]
  IN IF o.kind = "return" THEN Returned(S1, jid, o) ELSE Thrown(S1, jid, o)

\* C40: for a job whose cancellation was requested while its Responder call
\* was in flight, the store after the call is the same whatever the Responder
\* returns or throws: the Message is error/'cancelled' with empty content,
\* every other row and every conversation (its spam flag) is as before, and
\* no pending Message is added; and no job cancelled in flight has chained.
CancelIgnoresResult ==
  /\ \A jid \in DOMAIN jobs :
        (jobs[jid].pc = "respond" /\ jobs[jid].aborted) =>
           \A o \in Outcomes :
              LET A == AfterRespond(jid, o)
              IN /\ A.conversations = conversations
                 /\ A.msgs = [msgs EXCEPT ![jid[1]][jid[2]] =
                                [@ EXCEPT !.content = "", !.status = "error",
                                          !.metadata = ErrMeta("cancelled")]]
                 /\ DOMAIN A.jobs = DOMAIN jobs
                 /\ A.jobs[jid].next = None
  /\ \A id \in DOMAIN jobs :
        (jobs[id].cancelAt = "respond" /\ jobs[id].pc # "respond") =>
           /\ IsCancelled(Msg(id))
           /\ jobs[id].next = None /\ ChainedFrom(id) = {}

\* A job was cancelled in flight, the Responder then returned an answer with
\* a spam verdict while a visitor message was waiting: the conversation is not
\* marked as spam, the Message is the cancelled one and nothing was chained.
SpamVerdictIgnored ==
  \E id \in DOMAIN jobs :
     /\ Settled(id) /\ jobs[id].cancelAt = "respond"
     /\ jobs[id].result.kind = "return" /\ jobs[id].result.spam /\ ~jobs[id].result.drop
     /\ jobs[id].during # {}
     /\ ~conversations[id[1]].spam
     /\ IsCancelled(Msg(id)) /\ ChainedFrom(id) = {}

====
